---- MODULE Spec2Model ----
(***************************************************************************)
(* Build pipeline of the rquickjs-sys build script (src/sys/build.rs):     *)
(* configuration resolution, source staging, patch application, WASI SDK   *)
(* provisioning, binding generation and native compilation, run once per   *)
(* invocation over a disk that persists between invocations.               *)
(***************************************************************************)
EXTENDS Integers, Sequences, FiniteSets, TLC

(* ----------------------------- bounds ---------------------------------- *)

\* Spec lets cargo toggle only the first NumToggles entries of `features`
\* (SpecResolve toggles all of them).
NumToggles == 3

\* SpecResolve lets cargo enable any features at all, at most MaxEnabled of
\* them in one invocation.
MaxEnabled == 2

(* ------------------------- program constants --------------------------- *)

\* Names that go through feature_to_define are sequences of characters, so
\* that the conversion is computed and not assumed.
features ==
  << <<"e", "x", "p", "o", "r", "t", "s">>,
     <<"b", "i", "n", "d", "g", "e", "n">>,
     <<"u", "p", "d", "a", "t", "e", "-", "b", "i", "n", "d", "i", "n", "g", "s">>,
     <<"d", "u", "m", "p", "-", "b", "y", "t", "e", "c", "o", "d", "e">>,
     <<"d", "u", "m", "p", "-", "g", "c">>,
     <<"d", "u", "m", "p", "-", "g", "c", "-", "f", "r", "e", "e">>,
     <<"d", "u", "m", "p", "-", "f", "r", "e", "e">>,
     <<"d", "u", "m", "p", "-", "l", "e", "a", "k", "s">>,
     <<"d", "u", "m", "p", "-", "m", "e", "m">>,
     <<"d", "u", "m", "p", "-", "o", "b", "j", "e", "c", "t", "s">>,
     <<"d", "u", "m", "p", "-", "a", "t", "o", "m", "s">>,
     <<"d", "u", "m", "p", "-", "s", "h", "a", "p", "e", "s">>,
     <<"d", "u", "m", "p", "-", "m", "o", "d", "u", "l", "e", "-", "r", "e", "s", "o", "l", "v", "e">>,
     <<"d", "u", "m", "p", "-", "p", "r", "o", "m", "i", "s", "e">>,
     <<"d", "u", "m", "p", "-", "r", "e", "a", "d", "-", "o", "b", "j", "e", "c", "t">> >>

header_files ==
  << "libbf.h", "libregexp-opcode.h", "libregexp.h", "libunicode-table.h",
     "libunicode.h", "list.h", "quickjs-atom.h", "quickjs-opcode.h",
     "quickjs.h", "cutils.h" >>

source_files ==
  << "libregexp.c", "libunicode.c", "cutils.c", "quickjs.c", "libbf.c" >>

\* source_files.iter().chain(header_files.iter()), then quickjs.bind.h
bind_header == "quickjs.bind.h"
copy_list == source_files \o header_files \o << bind_header >>

base_patch_files ==
  << "error_column_number.patch", "get_function_proto.patch",
     "check_stack_overflow.patch", "infinity_handling.patch" >>

\* An Option is a sequence of length at most one.
None == << >>
Some(v) == << v >>

Str_GNU_SOURCE == <<"_", "G", "N", "U", "_", "S", "O", "U", "R", "C", "E">>
Str_CONFIG_VERSION == <<"C", "O", "N", "F", "I", "G", "_", "V", "E", "R", "S", "I", "O", "N">>
Str_CONFIG_BIGNUM == <<"C", "O", "N", "F", "I", "G", "_", "B", "I", "G", "N", "U", "M">>
Str_CONFIG_MODULE_EXPORTS == <<"C", "O", "N", "F", "I", "G", "_", "M", "O", "D", "U", "L", "E", "_", "E", "X", "P", "O", "R", "T", "S">>
Str_EMSCRIPTEN == <<"E", "M", "S", "C", "R", "I", "P", "T", "E", "N">>
Str_FE_DOWNWARD == <<"F", "E", "_", "D", "O", "W", "N", "W", "A", "R", "D">>
Str_FE_UPWARD == <<"F", "E", "_", "U", "P", "W", "A", "R", "D">>
Str_CARGO_FEATURE_ == <<"C", "A", "R", "G", "O", "_", "F", "E", "A", "T", "U", "R", "E", "_">>
Str_CARGO_FEATURE_EXPORTS == <<"C", "A", "R", "G", "O", "_", "F", "E", "A", "T", "U", "R", "E", "_", "E", "X", "P", "O", "R", "T", "S">>
Str_CARGO_FEATURE_UPDATE_BINDINGS == <<"C", "A", "R", "G", "O", "_", "F", "E", "A", "T", "U", "R", "E", "_", "U", "P", "D", "A", "T", "E", "_", "B", "I", "N", "D", "I", "N", "G", "S">>
Str_dump_ == <<"d", "u", "m", "p", "-">>

base_defines ==
  << [name |-> Str_GNU_SOURCE, value |-> None],
     [name |-> Str_CONFIG_VERSION, value |-> Some("\"2020-01-19\"")],
     [name |-> Str_CONFIG_BIGNUM, value |-> None] >>

(* --------------------------- pure functions ---------------------------- *)

LowerChars == <<"a", "b", "c", "d", "e", "f", "g", "h", "i", "j", "k", "l", "m", "n", "o", "p", "q", "r", "s", "t", "u", "v", "w", "x", "y", "z">>
UpperChars == <<"A", "B", "C", "D", "E", "F", "G", "H", "I", "J", "K", "L", "M", "N", "O", "P", "Q", "R", "S", "T", "U", "V", "W", "X", "Y", "Z">>

\* str::to_uppercase, one character
ToUpperChar(c) ==
  IF \E i \in DOMAIN LowerChars : LowerChars[i] = c
    THEN UpperChars[CHOOSE i \in DOMAIN LowerChars : LowerChars[i] = c]
    ELSE c

to_uppercase(s) == [i \in DOMAIN s |-> ToUpperChar(s[i])]

\* str::replace(from, to) for single characters
replace(s, from, to) == [i \in DOMAIN s |-> IF s[i] = from THEN to ELSE s[i]]

\* No replacement of '-': the define keeps the dash of the feature name.
feature_to_define_NoReplace(name) == to_uppercase(name)

feature_to_define(name) == replace(to_uppercase(name), "-", "_")

feature_to_cargo(name) == Str_CARGO_FEATURE_ \o feature_to_define(name)

starts_with(s, prefix) ==
  /\ Len(s) >= Len(prefix)
  /\ SubSeq(s, 1, Len(prefix)) = prefix

(* ------------------------ the world of inputs -------------------------- *)

\* What cargo exports for an enabled feature (cargo's own naming rule, written
\* out: it is the environment of the script, not computed by it).
CargoFeatureVar ==
  << <<"C", "A", "R", "G", "O", "_", "F", "E", "A", "T", "U", "R", "E", "_", "E", "X", "P", "O", "R", "T", "S">>,
     <<"C", "A", "R", "G", "O", "_", "F", "E", "A", "T", "U", "R", "E", "_", "B", "I", "N", "D", "G", "E", "N">>,
     <<"C", "A", "R", "G", "O", "_", "F", "E", "A", "T", "U", "R", "E", "_", "U", "P", "D", "A", "T", "E", "_", "B", "I", "N", "D", "I", "N", "G", "S">>,
     <<"C", "A", "R", "G", "O", "_", "F", "E", "A", "T", "U", "R", "E", "_", "D", "U", "M", "P", "_", "B", "Y", "T", "E", "C", "O", "D", "E">>,
     <<"C", "A", "R", "G", "O", "_", "F", "E", "A", "T", "U", "R", "E", "_", "D", "U", "M", "P", "_", "G", "C">>,
     <<"C", "A", "R", "G", "O", "_", "F", "E", "A", "T", "U", "R", "E", "_", "D", "U", "M", "P", "_", "G", "C", "_", "F", "R", "E", "E">>,
     <<"C", "A", "R", "G", "O", "_", "F", "E", "A", "T", "U", "R", "E", "_", "D", "U", "M", "P", "_", "F", "R", "E", "E">>,
     <<"C", "A", "R", "G", "O", "_", "F", "E", "A", "T", "U", "R", "E", "_", "D", "U", "M", "P", "_", "L", "E", "A", "K", "S">>,
     <<"C", "A", "R", "G", "O", "_", "F", "E", "A", "T", "U", "R", "E", "_", "D", "U", "M", "P", "_", "M", "E", "M">>,
     <<"C", "A", "R", "G", "O", "_", "F", "E", "A", "T", "U", "R", "E", "_", "D", "U", "M", "P", "_", "O", "B", "J", "E", "C", "T", "S">>,
     <<"C", "A", "R", "G", "O", "_", "F", "E", "A", "T", "U", "R", "E", "_", "D", "U", "M", "P", "_", "A", "T", "O", "M", "S">>,
     <<"C", "A", "R", "G", "O", "_", "F", "E", "A", "T", "U", "R", "E", "_", "D", "U", "M", "P", "_", "S", "H", "A", "P", "E", "S">>,
     <<"C", "A", "R", "G", "O", "_", "F", "E", "A", "T", "U", "R", "E", "_", "D", "U", "M", "P", "_", "M", "O", "D", "U", "L", "E", "_", "R", "E", "S", "O", "L", "V", "E">>,
     <<"C", "A", "R", "G", "O", "_", "F", "E", "A", "T", "U", "R", "E", "_", "D", "U", "M", "P", "_", "P", "R", "O", "M", "I", "S", "E">>,
     <<"C", "A", "R", "G", "O", "_", "F", "E", "A", "T", "U", "R", "E", "_", "D", "U", "M", "P", "_", "R", "E", "A", "D", "_", "O", "B", "J", "E", "C", "T">> >>

Min(a, b) == IF a < b THEN a ELSE b

\* The sets of CARGO_FEATURE_* variables cargo can export when it may toggle
\* the first n features.
FeatureVarSets(n) ==
  SUBSET { CargoFeatureVar[i] : i \in 1..Min(n, Len(features)) }

OsValues == { None, Some("linux"), Some("windows"), Some("wasi") }
TargetEnvValues == { None, Some("gnu"), Some("msvc") }

LinuxTriple == "x86_64-unknown-linux-gnu"
WasiTriple == "wasm32-wasi"
Targets == { LinuxTriple, WasiTriple }
TargetValues == { None } \cup { Some(t) : t \in Targets }

\* WASI_SDK override: unset, a directory that exists, one that does not.
InstalledSdk == "/opt/wasi-sdk"
NoSuchSdk == "/no/such/wasi-sdk"
WasiSdkValues == { None, Some(InstalledSdk), Some(NoSuchSdk) }

\* env::consts::(OS, ARCH) of the machine that runs the script.
HostOs == { "linux", "macos", "windows" }
HostArch == { "x86", "x86_64", "aarch64" }
HostTuples == HostOs \X HostArch

\* Files that may be missing from the checkout ("none": nothing is missing).
MissingChoices == { "none", "cutils.c", bind_header }

\* OUT_DIR/wasi-sdk
WasiSdkDir == "OUT_DIR/wasi-sdk"

EmptyCache == [dir |-> FALSE, archive |-> "absent", wasm_ld |-> FALSE, tools |-> FALSE]
\* An extracted SDK whose archive was deleted afterwards.
ExtractedCache == [dir |-> TRUE, archive |-> "absent", wasm_ld |-> TRUE, tools |-> TRUE]
InitCaches == { EmptyCache, ExtractedCache }

\* The bundled store src/bindings/ as shipped: one target has a file.
NoFile == [kind |-> "absent", target |-> ""]
ShippedBindings ==
  [t \in Targets |-> IF t = LinuxTriple THEN [kind |-> "shipped", target |-> t] ELSE NoFile]

(* ------------------------------- state --------------------------------- *)

VARIABLES
  env,              \* process environment read by the script
  host,             \* env::consts::(OS, ARCH)
  missing,          \* the file absent from the checkout, or "none"
  tree,             \* OUT_DIR: staged file -> "absent" | "pristine" | "patched"
  cache,            \* OUT_DIR/wasi-sdk: directory, archive, bin/wasm-ld, clang/ar/sysroot
  bundled,          \* src/bindings/<target>.rs
  bindings_rs,      \* OUT_DIR/bindings.rs
  pc,               \* position of main()
  panic,            \* message of the panic that ended the invocation, "" if none
  patch_files,      \* main: patch_files
  defines,          \* main: defines
  copy_idx,         \* files of copy_list copied by this invocation
  patch_idx,        \* patch() calls of this invocation that returned
  patch_failed,     \* some patch process of this invocation exited non-zero
  wasi_sdk_path,    \* main: wasi_sdk_path (None before get_wasi_sdk_path returns)
  add_cflags,       \* main: add_cflags
  cc_env,           \* CC, AR, CFLAGS of the process environment
  curl_calls,       \* curl processes started by this invocation
  tar_calls,        \* tar processes started by this invocation
  download_entered, \* download_wasi_sdk was called by this invocation
  warnings,         \* cargo:warning lines printed by this invocation
  bindings_writes,  \* writes of OUT_DIR/bindings.rs by this invocation
  clang_args,       \* bindgen (live): cflags handed to the generator
  cc_defines,       \* defines handed to cc::Build
  compiled,         \* libquickjs.a was produced by this invocation
  curl_status,      \* exit status of this invocation's curl process (None: not run)
  tar_status,       \* exit status of this invocation's tar process (None: not run)
  patch_log,        \* the patch files fed to the patch tool by this invocation, in order
  provisioned_before, \* an earlier invocation got past the SDK check via the cache
  updated_before    \* targets whose bundled bindings an earlier, completed invocation updated

disk == << host, missing, tree, cache, bundled, bindings_rs >>
locals == << patch_files, defines, copy_idx, patch_idx, patch_failed, wasi_sdk_path,
             add_cflags, cc_env, curl_calls, tar_calls, download_entered, warnings,
             bindings_writes, clang_args, cc_defines, compiled, curl_status,
             tar_status, patch_log >>
vars == << env, disk, pc, panic, locals, provisioned_before, updated_before >>

EnvUnset == [CC |-> None, AR |-> None, CFLAGS |-> None]

\* The state of a process that has just entered main().
FreshLocals ==
  /\ pc = "resolve"
  /\ panic = ""
  /\ patch_files = << >>
  /\ defines = << >>
  /\ copy_idx = 0
  /\ patch_idx = 0
  /\ patch_failed = FALSE
  /\ wasi_sdk_path = None
  /\ add_cflags = << >>
  /\ cc_env = EnvUnset
  /\ curl_calls = 0
  /\ tar_calls = 0
  /\ download_entered = FALSE
  /\ warnings = << >>
  /\ bindings_writes = 0
  /\ clang_args = << >>
  /\ cc_defines = << >>
  /\ compiled = FALSE
  /\ curl_status = None
  /\ tar_status = None
  /\ patch_log = << >>

DefaultHost == <<"linux", "x86_64">>

\* An input the script cannot reach in a configuration is held at one value:
\* host and cache vary only where download_wasi_sdk can run, a WASI_SDK that
\* does not exist only where it is looked at, and a checkout with a missing
\* file is tried with the default platform of each kind.  The hosts other than
\* the default one are tried with one TARGET and one CARGO_CFG_TARGET_ENV,
\* neither of which download_wasi_sdk reads.
Considered(e, h, m, c) ==
  /\ (e.os # Some("wasi") \/ e.wasi_sdk # None) => (h = DefaultHost /\ c = EmptyCache)
  /\ h # DefaultHost => (e.tenv = Some("gnu") /\ e.target = Some(WasiTriple))
  /\ e.os # Some("wasi") => e.wasi_sdk # Some(NoSuchSdk)
  /\ m # "none" => /\ e.os \in { Some("linux"), Some("wasi") }
                   /\ e.tenv = Some("gnu")
                   /\ e.target = Some(LinuxTriple)
                   /\ e.wasi_sdk = None
                   /\ h = DefaultHost /\ c = EmptyCache

Environments(n) ==
  [os : OsValues, tenv : TargetEnvValues, target : TargetValues,
   wasi_sdk : WasiSdkValues, vars : FeatureVarSets(n)]

Init ==
  /\ env \in Environments(NumToggles)
  /\ host \in HostTuples
  /\ missing \in MissingChoices
  /\ cache \in InitCaches
  /\ Considered(env, host, missing, cache)
  /\ tree = [f \in { copy_list[i] : i \in DOMAIN copy_list } |-> "absent"]
  /\ bundled = ShippedBindings
  /\ bindings_rs = NoFile
  /\ provisioned_before = FALSE
  /\ updated_before = { }
  /\ FreshLocals

\* env::var(name).is_ok() for a CARGO_FEATURE_* variable
FeatureVarIsOk(name) == name \in env.vars

\* A panic unwinds main(): nothing else of the invocation runs.
Abort(msg) ==
  /\ pc' = "aborted"
  /\ panic' = msg

(* ---------------- main, lines 146-183: configuration ------------------- *)

ResolvePatchFiles(os, tenv) ==
  LET p1 == IF os = "windows" /\ tenv = Some("msvc")
              THEN Append(base_patch_files, "basic_msvc_compat.patch")
              ELSE base_patch_files
  IN  IF FeatureVarIsOk(Str_CARGO_FEATURE_EXPORTS)
        THEN Append(p1, "read_module_exports.patch")
        ELSE p1

\* for feature in &features { if starts_with("dump-") && is_ok { push } }
RECURSIVE PushDumpDefines(_, _)
PushDumpDefines(defs, i) ==
  IF i > Len(features) THEN defs
  ELSE PushDumpDefines(
         IF starts_with(features[i], Str_dump_) /\ FeatureVarIsOk(feature_to_cargo(features[i]))
           THEN Append(defs, [name |-> feature_to_define(features[i]), value |-> None])
           ELSE defs,
         i + 1)

\* The wasi block defines _GNU_SOURCE once more.
wasi_defines_WithGnuSource ==
  << [name |-> Str_EMSCRIPTEN, value |-> Some("1")],
     [name |-> Str_GNU_SOURCE, value |-> Some("1")],
     [name |-> Str_FE_DOWNWARD, value |-> Some("0")],
     [name |-> Str_FE_UPWARD, value |-> Some("0")] >>

wasi_defines ==
  << [name |-> Str_EMSCRIPTEN, value |-> Some("1")],
     [name |-> Str_FE_DOWNWARD, value |-> Some("0")],
     [name |-> Str_FE_UPWARD, value |-> Some("0")] >>

ResolveDefines(os) ==
  LET d1 == IF FeatureVarIsOk(Str_CARGO_FEATURE_EXPORTS)
              THEN Append(base_defines, [name |-> Str_CONFIG_MODULE_EXPORTS, value |-> None])
              ELSE base_defines
      d2 == PushDumpDefines(d1, 1)
  IN  IF os = "wasi" THEN d2 \o wasi_defines ELSE d2

\* Unwraps CARGO_CFG_TARGET_ENV for no OS at all.
ReadsTargetEnv_Never(os) == FALSE

\* The right operand of the && at line 160 is evaluated, and CARGO_CFG_TARGET_ENV
\* unwrapped, only when the left one holds.
ReadsTargetEnv(os) == os = Some("windows")

\* CARGO_CFG_TARGET_OS is unwrapped first, CARGO_CFG_TARGET_ENV after it and
\* only for windows; then the patch list and the defines are built.
Resolve ==
  /\ pc = "resolve"
  /\ IF env.os = None
       THEN /\ Abort("unwrap CARGO_CFG_TARGET_OS")
            /\ UNCHANGED << patch_files, defines >>
       ELSE IF ReadsTargetEnv(env.os) /\ env.tenv = None
         THEN /\ Abort("unwrap CARGO_CFG_TARGET_ENV")
              /\ UNCHANGED << patch_files, defines >>
         ELSE /\ patch_files' = ResolvePatchFiles(env.os[1], env.tenv)
              /\ defines' = ResolveDefines(env.os[1])
              /\ pc' = "stage"
              /\ UNCHANGED panic
  /\ UNCHANGED << env, disk, copy_idx, patch_idx, patch_failed, wasi_sdk_path, add_cflags,
                  cc_env, curl_calls, tar_calls, download_entered, warnings,
                  bindings_writes, clang_args, cc_defines, compiled, curl_status,
                  tar_status, patch_log, provisioned_before, updated_before >>

(* ------------- main, lines 185-194: staging and patching --------------- *)

\* The files of copy_list that fs::copy copies before one fails.
RECURSIVE CopiedBeforeFailure(_)
CopiedBeforeFailure(n) ==
  IF n = Len(copy_list) \/ copy_list[n + 1] = missing THEN n
  ELSE CopiedBeforeFailure(n + 1)

\* Copies a file only where OUT_DIR has none yet.
Staged_KeepExisting(t, n) ==
  [f \in DOMAIN t |-> IF t[f] = "absent" /\ \E i \in 1..n : copy_list[i] = f
                        THEN "pristine" ELSE t[f]]

\* OUT_DIR after the first n files of copy_list were copied over it.
Staged(t, n) ==
  [f \in DOMAIN t |-> IF \E i \in 1..n : copy_list[i] = f THEN "pristine" ELSE t[f]]

StageCount == CopiedBeforeFailure(0)

\* Lines 185-189: copy every source, every header, then quickjs.bind.h; the
\* first copy that fails panics.
Stage ==
  /\ pc = "stage"
  /\ tree' = Staged(tree, StageCount)
  /\ copy_idx' = StageCount
  /\ IF StageCount < Len(copy_list)
       THEN Abort(IF copy_list[StageCount + 1] = bind_header
                    THEN "Unable to copy source"
                    ELSE "Unable to copy source; try 'git submodule update --init'")
       ELSE pc' = "patch" /\ UNCHANGED panic
  /\ UNCHANGED << env, host, missing, cache, bundled, bindings_rs, patch_files, defines,
                  patch_idx, patch_failed, wasi_sdk_path, add_cflags, cc_env, curl_calls,
                  tar_calls, download_entered, warnings, bindings_writes, clang_args,
                  cc_defines, compiled, curl_status, tar_status, patch_log,
                  provisioned_before, updated_before >>

\* What the patch tool leaves of the staged tree.
Patched(t) == [f \in DOMAIN t |-> IF t[f] = "absent" THEN "absent" ELSE "patched"]

PatchOutcomes == { "spawn_failed", "exit_0", "exit_1" }

\* Where main() goes when patch() returns after a process that exited with
\* `outcome`: the Output of wait_with_output is dropped, its status unread.
\* Leaves the loop after the first patch.
AfterPatch_SkipRest(outcome, next) == "provision"

AfterPatch(outcome, next) == next

\* The patch whose content the i-th call of patch() writes to the tool's stdin.
PatchAt_Reversed(files, i) == files[Len(files) + 1 - i]

\* for file in &patch_files { patch(out_dir, patches_dir.join(file)) }
PatchAt(files, i) == files[i]

\* One call of patch(): spawn, feed the patch to stdin, wait.
ApplyPatch ==
  /\ pc = "patch"
  /\ \E outcome \in PatchOutcomes :
       IF outcome = "spawn_failed"
         THEN /\ Abort("Unable to execute patch, you may need to install it: {}")
              /\ UNCHANGED << tree, patch_idx, patch_failed, patch_log >>
         ELSE LET next == IF patch_idx + 1 = Len(patch_files) THEN "provision" ELSE "patch" IN
              /\ tree' = Patched(tree)
              /\ patch_log' = Append(patch_log, PatchAt(patch_files, patch_idx + 1))
              /\ patch_idx' = patch_idx + 1
              /\ patch_failed' = (patch_failed \/ outcome = "exit_1")
              /\ pc' = AfterPatch(outcome, next)
              /\ panic' = IF pc' = "aborted" THEN "Unable to apply patch" ELSE panic
  /\ UNCHANGED << env, host, missing, cache, bundled, bindings_rs, patch_files, defines,
                  copy_idx, wasi_sdk_path, add_cflags, cc_env, curl_calls, tar_calls,
                  download_entered, warnings, bindings_writes, clang_args, cc_defines,
                  compiled, curl_status, tar_status, provisioned_before, updated_before >>

(* ---------- main, lines 196-213, and the SDK download, 13-90 ----------- *)

\* Every host gets the linux archive.
file_suffix_AnyHost(tuple) == Some("linux")

\* The (OS, ARCH) -> suffix table of download_wasi_sdk.
file_suffix(tuple) ==
  CASE tuple \in { <<"linux", "x86">>, <<"linux", "x86_64">> } -> Some("linux")
    [] tuple \in { <<"macos", "x86">>, <<"macos", "x86_64">>, <<"macos", "aarch64">> } -> Some("macos")
    [] tuple = <<"windows", "x86">> -> Some("mingw-x86")
    [] tuple = <<"windows", "x86_64">> -> Some("mingw")
    [] OTHER -> None

\* Path::try_exists for the SDK root.
SdkRootExists(path) ==
  IF path = WasiSdkDir THEN cache.dir ELSE path = InstalledSdk

\* Whether bin/clang, bin/ar and share/wasi-sysroot exist under the SDK root.
ToolchainExists(path) ==
  IF path = WasiSdkDir THEN cache.tools ELSE path = InstalledSdk

ProvisionFrame ==
  UNCHANGED << env, host, missing, tree, bundled, bindings_rs, patch_files, defines,
               copy_idx, patch_idx, patch_failed, warnings, bindings_writes, clang_args,
               cc_defines, compiled, patch_log, provisioned_before, updated_before >>

\* The target is not wasi: the block at line 197 is skipped.
SkipProvision ==
  /\ pc = "provision"
  /\ env.os # Some("wasi")
  /\ pc' = "bindgen"
  /\ UNCHANGED << panic, cache, wasi_sdk_path, add_cflags, cc_env, curl_calls, tar_calls,
                  download_entered, curl_status, tar_status >>
  /\ ProvisionFrame

\* Whether get_wasi_sdk_path falls through to download_wasi_sdk.
TakesDownload_Always(override) == TRUE

TakesDownload(override) == override = None

\* get_wasi_sdk_path: the override if set, else download_wasi_sdk, which
\* starts by creating the cache directory.
GetWasiSdkPath ==
  /\ pc = "provision"
  /\ env.os = Some("wasi")
  /\ IF TakesDownload(env.wasi_sdk)
       THEN /\ cache' = [cache EXCEPT !.dir = TRUE]
            /\ download_entered' = TRUE
            /\ pc' = "archive"
            /\ UNCHANGED wasi_sdk_path
       ELSE /\ wasi_sdk_path' = env.wasi_sdk
            /\ pc' = "sdk_check"
            /\ UNCHANGED << cache, download_entered >>
  /\ UNCHANGED << panic, add_cflags, cc_env, curl_calls, tar_calls, curl_status, tar_status >>
  /\ ProvisionFrame

\* What a curl run leaves: its exit status and the archive file.  A zero
\* status leaves a file, which may be the SDK, a tarball of another layout,
\* or no tarball at all (an error page).
CurlOutcomes ==
  { [status |-> 1, archive |-> "absent"], [status |-> 1, archive |-> "bad"],
    [status |-> 0, archive |-> "good"], [status |-> 0, archive |-> "odd"],
    [status |-> 0, archive |-> "bad"] }

\* Whether the download block (lines 28-58) is entered.
NeedsDownload(c) == c.archive = "absent"

\* Lines 27-58: fetch the archive unless the archive file exists.
Download ==
  /\ pc = "archive"
  /\ IF ~NeedsDownload(cache)
       THEN /\ pc' = "extract"
            /\ UNCHANGED << panic, cache, curl_calls, curl_status >>
       ELSE IF file_suffix(host) = None
         THEN /\ Abort("Unsupported platform tuple")
              /\ UNCHANGED << cache, curl_calls, curl_status >>
         ELSE \E out \in CurlOutcomes :
                /\ curl_calls' = curl_calls + 1
                /\ curl_status' = Some(out.status)
                /\ cache' = [cache EXCEPT !.archive = out.archive]
                /\ IF out.status # 0
                     THEN Abort("curl WASI SDK failed")
                     ELSE pc' = "extract" /\ UNCHANGED panic
  /\ UNCHANGED << wasi_sdk_path, add_cflags, cc_env, tar_calls, download_entered, tar_status >>
  /\ ProvisionFrame

\* What a tar run can do with the archive: exit status, and whether the SDK
\* binaries appear where the script expects them.
TarOutcomes(archive) ==
  CASE archive = "good" -> { [status |-> 0, unpacked |-> TRUE], [status |-> 1, unpacked |-> FALSE] }
    [] archive = "odd" -> { [status |-> 0, unpacked |-> FALSE], [status |-> 1, unpacked |-> FALSE] }
    [] OTHER -> { [status |-> 1, unpacked |-> FALSE] }

\* Lines 60-83: extract unless bin/wasm-ld exists; return the cache directory.
Extract ==
  /\ pc = "extract"
  /\ IF cache.wasm_ld
       THEN /\ wasi_sdk_path' = Some(WasiSdkDir)
            /\ pc' = "sdk_check"
            /\ UNCHANGED << panic, cache, tar_calls, tar_status >>
       ELSE \E out \in TarOutcomes(cache.archive) :
              /\ tar_calls' = tar_calls + 1
              /\ tar_status' = Some(out.status)
              /\ cache' = [cache EXCEPT !.wasm_ld = out.unpacked, !.tools = out.unpacked]
              /\ IF out.status # 0
                   THEN Abort("Unpacking WASI SDK failed") /\ UNCHANGED wasi_sdk_path
                   ELSE /\ wasi_sdk_path' = Some(WasiSdkDir)
                        /\ pc' = "sdk_check"
                        /\ UNCHANGED panic
  /\ UNCHANGED << add_cflags, cc_env, curl_calls, download_entered, curl_status >>
  /\ ProvisionFrame

\* The path is taken as it comes, without a test.
SdkUsable_Untested(path) == TRUE

\* The existence test main() makes before it points CC/AR/CFLAGS at the SDK.
SdkUsable(path) == SdkRootExists(path)

\* The path of the sysroot without the option in front of it.
Sysroot_NoOption(path) == path \o "/share/wasi-sysroot"

\* format!("--sysroot={}", wasi_sdk_path.join("share/wasi-sysroot").display())
Sysroot(path) == "--sysroot=" \o path \o "/share/wasi-sysroot"

\* Lines 199-212: check the SDK root, then set CC, AR, CFLAGS.
SdkCheck ==
  /\ pc = "sdk_check"
  /\ LET path == wasi_sdk_path[1] IN
       IF ~SdkUsable(path)
         THEN /\ Abort("wasi-sdk not installed in specified path")
              /\ UNCHANGED << add_cflags, cc_env >>
         ELSE /\ cc_env' = [CC |-> Some(path \o "/bin/clang"), AR |-> Some(path \o "/bin/ar"),
                            CFLAGS |-> Some(Sysroot(path))]
              /\ add_cflags' = << Sysroot(path) >>
              /\ pc' = "bindgen"
              /\ UNCHANGED panic
  /\ UNCHANGED << cache, wasi_sdk_path, curl_calls, tar_calls, download_entered,
                  curl_status, tar_status >>
  /\ ProvisionFrame

(* ------------------- bindgen, lines 268-370 ---------------------------- *)

\* cfg(feature = "bindgen"): cargo compiles the live bindgen() exactly when it
\* exports CARGO_FEATURE_BINDGEN.
LiveMode == FeatureVarIsOk(CargoFeatureVar[2])

\* Path::new("./src/bindings/<target>.rs").canonicalize().map(exists).unwrap_or(false)
BundledExists(target) == target \in DOMAIN bundled /\ bundled[target] # NoFile

MissingBindingsWarning(target) ==
  [text |-> "cargo:warning=rquickjs probably doesn't ship bindings for platform",
   platform |-> target]

\* The placeholder names no target.
Placeholder_NoTarget(target) == [kind |-> "placeholder", target |-> ""]

\* macro_rules! bindings_env { ("TARGET") => { "<target>" }; }
Placeholder(target) == [kind |-> "placeholder", target |-> target]

WarnsFor(target) == ~BundledExists(target)

BindgenFrame ==
  UNCHANGED << env, host, missing, tree, cache, patch_files, defines, copy_idx, patch_idx,
               patch_failed, wasi_sdk_path, add_cflags, cc_env, curl_calls, tar_calls,
               download_entered, cc_defines, compiled, curl_status, tar_status, patch_log,
               provisioned_before, updated_before >>

\* bindgen() without the bindgen feature (lines 268-304).
BindgenFallback ==
  /\ pc = "bindgen"
  /\ ~LiveMode
  /\ IF env.target = None
       THEN /\ Abort("unwrap TARGET")
            /\ UNCHANGED << warnings, bindings_rs, bindings_writes >>
       ELSE LET target == env.target[1] IN
            /\ warnings' = IF WarnsFor(target)
                             THEN Append(warnings, MissingBindingsWarning(target))
                             ELSE warnings
            /\ bindings_rs' = Placeholder(target)
            /\ bindings_writes' = bindings_writes + 1
            /\ pc' = "compile"
            /\ UNCHANGED panic
  /\ UNCHANGED << bundled, clang_args >>
  /\ BindgenFrame

\* Every define is passed bare, its value dropped.
DefineFlag_Bare(d) == << "-D", d.name >>

\* format!("-D{}={}", name, value) / format!("-D{}", name), kept in parts
DefineFlag(d) ==
  IF d.value # None THEN << "-D", d.name, "=", d.value[1] >> ELSE << "-D", d.name >>

\* lines 319-330: --target, the flags main() passed in, one -D per define
cflags(target) ==
  << << "--target=", target >> >>
    \o [i \in DOMAIN add_cflags |-> << add_cflags[i] >>]
    \o [i \in DOMAIN defines |-> DefineFlag(defines[i])]

\* The arguments the builder hands to clang: .clang_arg("-xc").clang_arg("-v")
\* .clang_args(cflags), then -fvisibility=default for wasi (lines 334-352).
ClangArgs(target) ==
  << << "-xc" >>, << "-v" >> >>
    \o cflags(target)
    \o (IF env.os = Some("wasi") THEN << << "-fvisibility=default" >> >> ELSE << >>)

Generated(target) == [kind |-> "generated", target |-> target]

\* How often the live bindgen() writes OUT_DIR/bindings.rs.
LiveWrites_Twice == 1 + 1

LiveWrites == 1

\* Copies the artifact whatever the toggle says.
UpdatesBundled_Always == TRUE

\* if env::var("CARGO_FEATURE_UPDATE_BINDINGS").is_ok()
UpdatesBundled == FeatureVarIsOk(Str_CARGO_FEATURE_UPDATE_BINDINGS)

\* The copy is not made: the store is left as it was.
UpdatedBundled_Untouched(target, artifact) == bundled

\* fs::copy(&bindings_file, dest_dir.join(format!("{}.rs", target)))
UpdatedBundled(target, artifact) == [bundled EXCEPT ![target] = artifact]

\* bindgen() with the bindgen feature (lines 306-370); generate() may fail.
BindgenLive ==
  /\ pc = "bindgen"
  /\ LiveMode
  /\ IF env.target = None
       THEN /\ Abort("unwrap TARGET")
            /\ UNCHANGED << clang_args, bindings_rs, bindings_writes, bundled >>
       ELSE LET target == env.target[1] IN
            /\ clang_args' = ClangArgs(target)
            /\ \E generated \in BOOLEAN :
                 IF ~generated
                   THEN /\ Abort("Unable to generate bindings")
                        /\ UNCHANGED << bindings_rs, bindings_writes, bundled >>
                   ELSE /\ bindings_rs' = Generated(target)
                        /\ bindings_writes' = bindings_writes + LiveWrites
                        /\ bundled' = IF UpdatesBundled
                                        THEN UpdatedBundled(target, bindings_rs')
                                        ELSE bundled
                        /\ pc' = "compile"
                        /\ UNCHANGED panic
  /\ UNCHANGED warnings
  /\ BindgenFrame

(* ------------------- main, lines 223-239: compilation ------------------ *)

\* cc::Build with every define and source file; compile() ends the process
\* when the compiler fails.
Compile ==
  /\ pc = "compile"
  /\ cc_defines' = defines
  /\ \E ok \in BOOLEAN :
       IF ok
         THEN compiled' = TRUE /\ pc' = "done" /\ UNCHANGED panic
         ELSE Abort("cc: compilation failed") /\ UNCHANGED compiled
  /\ UNCHANGED << env, disk, patch_files, defines, copy_idx, patch_idx, patch_failed,
                  wasi_sdk_path, add_cflags, cc_env, curl_calls, tar_calls,
                  download_entered, warnings, bindings_writes, clang_args, curl_status,
                  tar_status, patch_log, provisioned_before, updated_before >>

(* ------------------------- the next invocation ------------------------- *)

\* This invocation got past the SDK check with the cache directory as root.
ProvisionedFromCache ==
  /\ wasi_sdk_path = Some(WasiSdkDir)
  /\ cc_env.CC # None

\* The targets for which this invocation, in live mode with the
\* update-bindings toggle set, ran to its end.
UpdatedByThisInvocation ==
  IF pc = "done" /\ LiveMode /\ UpdatesBundled THEN { env.target[1] } ELSE { }

\* cargo runs the script again when build.rs or one of the CARGO_FEATURE_*
\* variables changes (lines 114-117): a new process, the same disk.
Rerun ==
  /\ pc \in { "done", "aborted" }
  /\ \E v \in FeatureVarSets(NumToggles) : env' = [env EXCEPT !.vars = v]
  /\ provisioned_before' = (provisioned_before \/ ProvisionedFromCache)
  /\ updated_before' = updated_before \cup UpdatedByThisInvocation
  /\ pc' = "resolve"
  /\ panic' = ""
  /\ patch_files' = << >>
  /\ defines' = << >>
  /\ copy_idx' = 0
  /\ patch_idx' = 0
  /\ patch_failed' = FALSE
  /\ wasi_sdk_path' = None
  /\ add_cflags' = << >>
  /\ cc_env' = EnvUnset
  /\ curl_calls' = 0
  /\ tar_calls' = 0
  /\ download_entered' = FALSE
  /\ warnings' = << >>
  /\ bindings_writes' = 0
  /\ clang_args' = << >>
  /\ cc_defines' = << >>
  /\ compiled' = FALSE
  /\ curl_status' = None
  /\ tar_status' = None
  /\ patch_log' = << >>
  /\ UNCHANGED disk

Next ==
  \/ Resolve
  \/ Stage
  \/ ApplyPatch
  \/ SkipProvision
  \/ GetWasiSdkPath
  \/ Download
  \/ Extract
  \/ SdkCheck
  \/ BindgenFallback
  \/ BindgenLive
  \/ Compile
  \/ Rerun

Spec == Init /\ [][Next]_vars

\* The configuration rules over every feature of the list: any set of at most
\* MaxEnabled CARGO_FEATURE_* variables, every target OS and environment, the
\* rest of the inputs held at their defaults.
InitResolve ==
  /\ env \in { e \in Environments(Len(features)) :
                 /\ Cardinality(e.vars) <= MaxEnabled
                 /\ e.target = Some(LinuxTriple)
                 /\ e.wasi_sdk = None }
  /\ host = DefaultHost
  /\ missing = "none"
  /\ cache = EmptyCache
  /\ tree = [f \in { copy_list[i] : i \in DOMAIN copy_list } |-> "absent"]
  /\ bundled = ShippedBindings
  /\ bindings_rs = NoFile
  /\ provisioned_before = FALSE
  /\ updated_before = { }
  /\ FreshLocals

SpecResolve == InitResolve /\ [][Next]_vars

(* ------------------------------ claims --------------------------------- *)

IsWasi == env.os = Some("wasi")

\* The invocation has got past the SDK check and set CC, AR and CFLAGS.
PastProvisioning == cc_env.CC # None

\* C1: when a patch process exits with a non-zero status the invocation is
\* aborted: no later patch is applied, binding generation and compilation are
\* not reached and no library is produced.
C1_PatchFailureIsFatal ==
  patch_failed =>
    /\ pc = "aborted"
    /\ bindings_writes = 0
    /\ ~compiled

\* C2: for a wasi target without WASI_SDK, once the invocation is past
\* provisioning (CC, AR, CFLAGS set, binding generation or compilation reached)
\* bin/clang, bin/ar and share/wasi-sysroot exist under the SDK root.
C2_ToolchainExistsPastProvisioning ==
  (IsWasi /\ env.wasi_sdk = None /\ PastProvisioning) => ToolchainExists(WasiSdkDir)

\* C3: inside download_wasi_sdk, while bin/wasm-ld exists in the cache
\* directory (it then existed at entry: only tar creates it), no step starts
\* curl or tar, whether or not the archive file is there.
C3_LinkerPresentSkipsFetchAndExtract ==
  [][(pc \in { "archive", "extract" } /\ cache.wasm_ld)
       => (curl_calls' = curl_calls /\ tar_calls' = tar_calls)]_vars

\* C4: once an invocation has completed provisioning from the cache directory,
\* every later invocation starts neither curl nor tar.
C4_WarmCacheNoFetchNoExtract ==
  provisioned_before => (curl_calls = 0 /\ tar_calls = 0)

Range(seq) == { seq[i] : i \in DOMAIN seq }

\* Resolve has built the patch list and the defines of this invocation.
Resolved == patch_files # << >>

ProvisioningStarted == download_entered \/ wasi_sdk_path # None
BindgenStarted ==
  \/ bindings_writes > 0
  \/ clang_args # << >>
  \/ warnings # << >>
  \/ panic \in { "unwrap TARGET", "Unable to generate bindings" }
CompileStarted == cc_defines # << >>

\* C5 as stated: nothing is copied or patched for a wasi target before
\* provisioning has completed, and compilation does not start before the
\* binding artifact is written.
C5_ProvisioningBeforeStaging ==
  /\ (IsWasi /\ (copy_idx > 0 \/ patch_idx > 0)) => PastProvisioning
  /\ CompileStarted => bindings_writes > 0

\* C5, amended: the order is configuration, staging, patching, provisioning
\* (wasi only), binding generation, compilation: every file is copied before
\* the first patch, every patch has run before provisioning starts and before
\* binding generation starts, for wasi provisioning has completed before
\* binding generation starts, and the binding artifact is written before
\* compilation starts.
C5_StagingBeforeProvisioning ==
  /\ (copy_idx > 0 \/ pc = "stage") => Resolved
  /\ (patch_idx > 0 \/ pc = "patch") => copy_idx = Len(copy_list)
  /\ (ProvisioningStarted \/ pc \in { "provision", "archive", "extract", "sdk_check" })
       => (Resolved /\ patch_idx = Len(patch_files))
  /\ ProvisioningStarted => IsWasi
  /\ (BindgenStarted \/ pc = "bindgen")
       => /\ Resolved /\ patch_idx = Len(patch_files)
          /\ IsWasi => PastProvisioning
  /\ (CompileStarted \/ pc \in { "compile", "done" }) => bindings_writes > 0

C5_Witness ==
  /\ pc = "done" /\ compiled
  /\ IsWasi /\ download_entered /\ curl_calls = 1 /\ tar_calls = 1
  /\ Len(patch_files) = Len(base_patch_files) + 1

NothingStarted ==
  /\ copy_idx = 0 /\ patch_idx = 0
  /\ ~download_entered /\ curl_calls = 0 /\ tar_calls = 0
  /\ bindings_writes = 0 /\ clang_args = << >>
  /\ cc_defines = << >> /\ ~compiled

\* C6 as stated: with CARGO_CFG_TARGET_OS, CARGO_CFG_TARGET_ENV or TARGET
\* absent the invocation does nothing but abort: no file staged, no patch, no
\* external process.
C6_AbsentVariableFailsFast ==
  (env.os = None \/ env.tenv = None \/ env.target = None)
    => (pc \in { "resolve", "aborted" } /\ NothingStarted)

\* C6, amended: an absent CARGO_CFG_TARGET_OS is fatal before anything is
\* staged or started; an absent CARGO_CFG_TARGET_ENV is fatal, as early, only
\* when the OS is windows and is never unwrapped otherwise; an absent TARGET is
\* fatal in binding generation, after staging and patching (and provisioning),
\* before the binding artifact is written and before compilation.
C6_AbsentVariableIsFatalWhereRead ==
  /\ (env.os = None \/ (env.os = Some("windows") /\ env.tenv = None))
       => /\ pc \in { "resolve", "aborted" }
          /\ NothingStarted
          /\ pc = "aborted" => panic = (IF env.os = None THEN "unwrap CARGO_CFG_TARGET_OS"
                                                       ELSE "unwrap CARGO_CFG_TARGET_ENV")
  /\ (env.os \notin { None, Some("windows") }) => panic # "unwrap CARGO_CFG_TARGET_ENV"
  /\ env.target = None
       => /\ bindings_writes = 0 /\ ~CompileStarted /\ ~compiled
          /\ pc \notin { "compile", "done" }
  /\ panic = "unwrap TARGET"
       => /\ env.target = None
          /\ copy_idx = Len(copy_list) /\ patch_idx = Len(patch_files)
          /\ IsWasi => PastProvisioning

\* TARGET and CARGO_CFG_TARGET_ENV are absent for a wasi target: the panic
\* comes from bindgen, after staging, patching, a fetch and an extraction.
C6_Witness ==
  /\ env.target = None /\ env.tenv = None /\ IsWasi
  /\ panic = "unwrap TARGET"
  /\ copy_idx = Len(copy_list) /\ patch_idx = Len(patch_files)
  /\ curl_calls = 1 /\ tar_calls = 1

\* C7: in fallback mode with TARGET set, the bindgen step writes the
\* placeholder naming exactly that target and goes on to compilation without a
\* panic; it prints one warning naming the target when src/bindings has no file
\* for it, and none when it has.
C7_FallbackPlaceholderAndWarning ==
  [][(pc = "bindgen" /\ ~LiveMode /\ env.target # None)
       => /\ pc' = "compile" /\ panic' = ""
          /\ bindings_rs' = [kind |-> "placeholder", target |-> env.target[1]]
          /\ warnings' =
               IF bundled[env.target[1]].kind = "absent"
                 THEN << [text |-> "cargo:warning=rquickjs probably doesn't ship bindings for platform",
                          platform |-> env.target[1]] >>
                 ELSE << >>]_vars

\* A fallback invocation for a target without bundled bindings has warned,
\* written the placeholder and finished compilation.
C7_Witness ==
  /\ pc = "done" /\ compiled /\ ~LiveMode
  /\ env.target = Some(WasiTriple) /\ bundled[WasiTriple] = NoFile
  /\ Len(warnings) = 1 /\ warnings[1].platform = WasiTriple
  /\ bindings_rs = [kind |-> "placeholder", target |-> WasiTriple]

\* C8: an invocation never writes OUT_DIR/bindings.rs twice, and one that is
\* past binding generation has written it exactly once: generated in live
\* mode, the placeholder in fallback mode.
C8_ExactlyOneBindingArtifact ==
  /\ bindings_writes <= 1
  /\ (pc \in { "compile", "done" } \/ CompileStarted) => bindings_writes = 1
  /\ bindings_writes = 1 =>
       bindings_rs.kind = (IF LiveMode THEN "generated" ELSE "placeholder")

C8_Witness ==
  /\ pc = "done" /\ LiveMode
  /\ bindings_writes = 1 /\ bindings_rs.kind = "generated"

\* The define each dump feature stands for, written out (entries 1-3, the
\* features that are not dumps, stand for none).
DumpDefineNames ==
  << << >>,
     << >>,
     << >>,
     <<"D", "U", "M", "P", "_", "B", "Y", "T", "E", "C", "O", "D", "E">>,
     <<"D", "U", "M", "P", "_", "G", "C">>,
     <<"D", "U", "M", "P", "_", "G", "C", "_", "F", "R", "E", "E">>,
     <<"D", "U", "M", "P", "_", "F", "R", "E", "E">>,
     <<"D", "U", "M", "P", "_", "L", "E", "A", "K", "S">>,
     <<"D", "U", "M", "P", "_", "M", "E", "M">>,
     <<"D", "U", "M", "P", "_", "O", "B", "J", "E", "C", "T", "S">>,
     <<"D", "U", "M", "P", "_", "A", "T", "O", "M", "S">>,
     <<"D", "U", "M", "P", "_", "S", "H", "A", "P", "E", "S">>,
     <<"D", "U", "M", "P", "_", "M", "O", "D", "U", "L", "E", "_", "R", "E", "S", "O", "L", "V", "E">>,
     <<"D", "U", "M", "P", "_", "P", "R", "O", "M", "I", "S", "E">>,
     <<"D", "U", "M", "P", "_", "R", "E", "A", "D", "_", "O", "B", "J", "E", "C", "T">> >>

Bare(name) == [name |-> name, value |-> << >>]
Valued(name, value) == [name |-> name, value |-> << value >>]

FourBasePatches ==
  << "error_column_number.patch", "get_function_proto.patch",
     "check_stack_overflow.patch", "infinity_handling.patch" >>

ThreeBaseDefines ==
  << Bare(Str_GNU_SOURCE), Valued(Str_CONFIG_VERSION, "\"2020-01-19\""), Bare(Str_CONFIG_BIGNUM) >>

WasiDefineSet ==
  { Valued(Str_EMSCRIPTEN, "1"), Valued(Str_FE_DOWNWARD, "0"), Valued(Str_FE_UPWARD, "0") }

ExportsOn == CargoFeatureVar[1] \in env.vars
MsvcTarget == env.os = << "windows" >> /\ env.tenv = << "msvc" >>

\* The implication rules, as sets and lists of the toggles.
RulePatchList ==
  FourBasePatches
    \o (IF MsvcTarget THEN << "basic_msvc_compat.patch" >> ELSE << >>)
    \o (IF ExportsOn THEN << "read_module_exports.patch" >> ELSE << >>)

RuleDefineSet ==
  Range(ThreeBaseDefines)
    \cup (IF ExportsOn THEN { Bare(Str_CONFIG_MODULE_EXPORTS) } ELSE { })
    \cup { Bare(DumpDefineNames[i]) :
             i \in { j \in 4..Len(CargoFeatureVar) : CargoFeatureVar[j] \in env.vars } }
    \cup (IF IsWasi THEN WasiDefineSet ELSE { })

NoProvisioning ==
  /\ ~download_entered /\ wasi_sdk_path = << >>
  /\ curl_calls = 0 /\ tar_calls = 0
  /\ cc_env = [CC |-> << >>, AR |-> << >>, CFLAGS |-> << >>]
  /\ pc \notin { "archive", "extract", "sdk_check" }

\* C9: the patch list and the defines built by the configuration step are
\* what the implication rules give for the target and the enabled toggles: the
\* four base patches first, the MSVC patch iff windows+msvc, then the exports
\* patch iff exports; the three base defines, CONFIG_MODULE_EXPORTS iff exports,
\* DUMP_X for exactly the enabled dump-X, nothing for bindgen and
\* update-bindings, each define once; and with no feature on linux/gnu exactly
\* the three base defines and the four base patches, without provisioning.
C9_ResolverFollowsRules ==
  Resolved =>
    /\ patch_files = RulePatchList
    /\ SubSeq(patch_files, 1, 4) = FourBasePatches
    /\ Range(defines) = RuleDefineSet
    /\ Len(defines) = Cardinality(RuleDefineSet)
    /\ (env.os = << "linux" >> /\ env.tenv = << "gnu" >> /\ env.vars = { })
         => /\ defines = ThreeBaseDefines
            /\ patch_files = FourBasePatches
            /\ NoProvisioning

\* windows+msvc with exports and dump-gc-free: both patches after the base
\* ones, CONFIG_MODULE_EXPORTS and DUMP_GC_FREE among the defines.
C9_Witness ==
  /\ Resolved /\ MsvcTarget
  /\ env.vars = { CargoFeatureVar[1], CargoFeatureVar[6] }
  /\ Len(patch_files) = 6
  /\ Bare(DumpDefineNames[6]) \in Range(defines)
  /\ pc = "done"

WasiDefineNames == { Str_EMSCRIPTEN, Str_FE_DOWNWARD, Str_FE_UPWARD }

\* C10: for wasi the defines hold EMSCRIPTEN=1, FE_DOWNWARD=0 and
\* FE_UPWARD=0 whatever the features, and download_wasi_sdk is entered exactly
\* when WASI_SDK is unset; for any other OS none of the three names is defined
\* and nothing of provisioning happens.
C10_WasiDefinesAndProvisioning ==
  /\ Resolved =>
       IF IsWasi
         THEN WasiDefineSet \subseteq Range(defines)
         ELSE \A i \in DOMAIN defines : defines[i].name \notin WasiDefineNames
  /\ download_entered => (IsWasi /\ env.wasi_sdk = << >>)
  /\ (IsWasi /\ (wasi_sdk_path # << >> \/ PastProvisioning
                   \/ pc \in { "archive", "extract", "sdk_check", "bindgen", "compile", "done" }))
       => (download_entered <=> env.wasi_sdk = << >>)
  /\ ~IsWasi => NoProvisioning

\* A wasi invocation without WASI_SDK, with a feature enabled, that went
\* through download_wasi_sdk and finished.
C10_Witness ==
  /\ IsWasi /\ env.wasi_sdk = << >> /\ env.vars # { }
  /\ download_entered /\ pc = "done"
  /\ WasiDefineSet \subseteq Range(defines)

\* C11: a step changes the bundled store src/bindings only when it is the
\* binding step of a live-mode invocation with the update-bindings toggle set
\* that wrote the generated artifact, and then only the file of that
\* invocation's target, which becomes a copy of the artifact just written; such
\* a step always leaves that copy; no step changes the vendored checkout.
C11_OnlyTheUpdateWritesOutsideOutDir ==
  [][/\ missing' = missing
     /\ bundled' # bundled =>
          /\ pc = "bindgen" /\ pc' = "compile"
          /\ CargoFeatureVar[2] \in env.vars /\ CargoFeatureVar[3] \in env.vars
          /\ env.target # << >>
          /\ bindings_writes' = bindings_writes + 1
          /\ bindings_rs' = [kind |-> "generated", target |-> env.target[1]]
          /\ \A t \in DOMAIN bundled :
               bundled'[t] = IF t = env.target[1] THEN bindings_rs' ELSE bundled[t]
     /\ (/\ pc = "bindgen" /\ pc' = "compile"
         /\ CargoFeatureVar[2] \in env.vars /\ CargoFeatureVar[3] \in env.vars)
          => bundled'[env.target[1]] = bindings_rs'
     /\ (pc = "bindgen" /\ CargoFeatureVar[3] \notin env.vars) => bundled' = bundled]_vars

\* A live invocation with the toggle set has finished for the wasi target,
\* whose bundled file did not exist before: it is now the generated artifact,
\* and the shipped file of the other target is as it was.
C11_Witness ==
  /\ pc = "done"
  /\ CargoFeatureVar[2] \in env.vars /\ CargoFeatureVar[3] \in env.vars
  /\ env.target = << WasiTriple >>
  /\ bundled[WasiTriple] = [kind |-> "generated", target |-> WasiTriple]
  /\ bundled[LinuxTriple] = [kind |-> "shipped", target |-> LinuxTriple]
  /\ bindings_rs = bundled[WasiTriple]

\* C12: once a live-mode invocation with the update-bindings toggle set has
\* run to its end for a target, src/bindings holds a generated file for that
\* target from then on, and a later fallback-mode invocation for the target
\* that has been through its binding step printed no warning and handed no
\* flags to header introspection: it only wrote the placeholder.
C12_FallbackAfterUpdateFindsBundled ==
  \A t \in updated_before :
    /\ bundled[t] = [kind |-> "generated", target |-> t]
    /\ (/\ env.target = << t >>
        /\ CargoFeatureVar[2] \notin env.vars
        /\ bindings_writes > 0)
         => /\ warnings = << >>
            /\ clang_args = << >>
            /\ bindings_rs = [kind |-> "placeholder", target |-> t]

\* A fallback invocation has finished for the wasi target, which shipped
\* without bundled bindings, after an earlier invocation updated them.
C12_Witness ==
  /\ updated_before = { WasiTriple }
  /\ env.target = << WasiTriple >>
  /\ CargoFeatureVar[2] \notin env.vars
  /\ pc = "done" /\ bindings_writes = 1
  /\ warnings = << >>

StagedFiles == { copy_list[i] : i \in DOMAIN copy_list }

\* C13: whatever an earlier invocation left in OUT_DIR, the first patch of an
\* invocation is applied to a tree in which every source, every header and
\* quickjs.bind.h is the pristine copy; a patch is applied only after this
\* invocation copied them all; and an invocation that ran to its end leaves
\* the outputs its environment determines: every staged file patched, with
\* exactly this invocation's patch list, bindings.rs the artifact of this mode
\* and target, and the library compiled.
C13_EachRunStartsFromPristineTree ==
  /\ (pc = "patch" /\ patch_idx = 0) => \A f \in StagedFiles : tree[f] = "pristine"
  /\ patch_idx > 0 => (copy_idx = Len(copy_list) /\ \A f \in StagedFiles : tree[f] = "patched")
  /\ pc = "done" =>
       /\ \A f \in StagedFiles : tree[f] = "patched"
       /\ patch_log = patch_files
       /\ bindings_rs = [kind |-> IF CargoFeatureVar[2] \in env.vars
                                    THEN "generated" ELSE "placeholder",
                         target |-> env.target[1]]
       /\ compiled

\* A second invocation is about to apply its first patch: the earlier one left
\* bindings.rs, so it had staged and patched the tree, which is pristine again.
C13_Witness ==
  /\ pc = "patch" /\ patch_idx = 0
  /\ bindings_rs # NoFile
  /\ \A f \in StagedFiles : tree[f] = "pristine"

FixedTable ==
  { <<"linux", "x86">>, <<"linux", "x86_64">>,
    <<"macos", "x86">>, <<"macos", "x86_64">>, <<"macos", "aarch64">>,
    <<"windows", "x86">>, <<"windows", "x86_64">> }

\* C14: once download_wasi_sdk is past its fetch block with the archive file
\* still absent on a host outside the fixed table, the invocation has ended
\* with the unsupported-platform panic and started neither curl nor tar, and
\* that panic occurs on no host of the table; curl is started only on a host of
\* the table; a non-zero exit of curl has ended the invocation with the curl
\* panic and tar was not started; a non-zero exit of tar has ended it with the
\* unpacking panic; no invocation starts curl or tar twice.
C14_FetchAndExtractFailFastNoRetry ==
  /\ (/\ download_entered /\ pc # "archive"
      /\ host \notin FixedTable /\ cache.archive = "absent")
       => /\ pc = "aborted" /\ panic = "Unsupported platform tuple"
          /\ curl_calls = 0 /\ tar_calls = 0
  /\ panic = "Unsupported platform tuple" => host \notin FixedTable
  /\ curl_calls > 0 => host \in FixedTable
  /\ curl_calls <= 1 /\ tar_calls <= 1
  /\ (curl_calls = 0 <=> curl_status = << >>) /\ (tar_calls = 0 <=> tar_status = << >>)
  /\ (curl_status # << >> /\ curl_status # << 0 >>)
       => (pc = "aborted" /\ panic = "curl WASI SDK failed" /\ tar_calls = 0)
  /\ (tar_status # << >> /\ tar_status # << 0 >>)
       => (pc = "aborted" /\ panic = "Unpacking WASI SDK failed")

\* On a windows/aarch64 host with an empty cache the invocation has ended
\* with the unsupported-platform panic, after staging and patching, and has
\* started no process of the download.
C14_Witness ==
  /\ host = << "windows", "aarch64" >>
  /\ download_entered /\ cache.archive = "absent"
  /\ pc = "aborted" /\ panic = "Unsupported platform tuple"
  /\ curl_calls = 0 /\ tar_calls = 0

\* C15: in a wasi invocation with WASI_SDK set, the path main() works with is
\* the value of WASI_SDK, download_wasi_sdk is not entered, OUT_DIR/wasi-sdk is
\* not created and neither curl nor tar is started; when that path does not
\* exist, the invocation ends at the existence test with CC, AR and CFLAGS
\* unset, no sysroot flag, and binding generation and compilation not started.
C15_OverrideUsedDirectly ==
  (IsWasi /\ env.wasi_sdk # << >>) =>
    /\ ~download_entered /\ ~cache.dir
    /\ curl_calls = 0 /\ tar_calls = 0
    /\ pc \notin { "archive", "extract" }
    /\ wasi_sdk_path \in { << >>, env.wasi_sdk }
    /\ pc \in { "sdk_check", "bindgen", "compile", "done" } => wasi_sdk_path = env.wasi_sdk
    /\ env.wasi_sdk = << NoSuchSdk >> =>
         /\ pc \notin { "bindgen", "compile", "done" }
         /\ cc_env = [CC |-> << >>, AR |-> << >>, CFLAGS |-> << >>]
         /\ add_cflags = << >>
         /\ bindings_writes = 0 /\ clang_args = << >> /\ ~compiled
         /\ wasi_sdk_path # << >> =>
              (pc = "sdk_check"
                 \/ (pc = "aborted" /\ panic = "wasi-sdk not installed in specified path"))

\* WASI_SDK names a directory that does not exist: the invocation has ended at
\* the existence test.
C15_Witness ==
  /\ IsWasi /\ env.wasi_sdk = << NoSuchSdk >>
  /\ wasi_sdk_path = << NoSuchSdk >>
  /\ pc = "aborted" /\ panic = "wasi-sdk not installed in specified path"
  /\ ~cache.dir /\ cc_env.CC = << >>

\* C16: at every point of every invocation, for every target OS and
\* environment and every set of enabled features, no two entries of the
\* defines carry the same name.
C16_DefineNamesPairwiseDistinct ==
  \A i \in DOMAIN defines : \A j \in DOMAIN defines :
    i # j => defines[i].name # defines[j].name

\* A finished wasi invocation with as many define-producing features enabled
\* as MaxEnabled allows: the three base defines, one per feature, three for wasi.
C16_Witness ==
  /\ IsWasi /\ pc = "done"
  /\ Cardinality(env.vars) = MaxEnabled
  /\ Len(defines) = 3 + MaxEnabled + 3
  /\ cc_defines = defines

\* C17: the patches fed to the patch tool by an invocation are, at every
\* moment, the first patch_idx entries of its patch list in the order of the
\* list, one invocation of the tool per entry; once the invocation is past
\* patching, the whole list; the tool is never started before this invocation
\* has copied every source, every header and quickjs.bind.h; and an
\* invocation that ended with a copy failure has started the tool for no
\* patch and left no file patched by it.
C17_PatchesOncePerEntryInOrderAfterCopies ==
  /\ patch_idx <= Len(patch_files)
  /\ Len(patch_log) = patch_idx
  /\ \A i \in 1..Len(patch_log) : patch_log[i] = patch_files[i]
  /\ pc \in { "provision", "archive", "extract", "sdk_check", "bindgen", "compile", "done" }
       => patch_log = patch_files
  /\ patch_log # << >> => copy_idx = Len(copy_list)
  /\ pc = "patch" => copy_idx = Len(copy_list)
  /\ panic \in { "Unable to copy source", "Unable to copy source; try 'git submodule update --init'" }
       => /\ pc = "aborted" /\ patch_log = << >> /\ patch_idx = 0
          /\ copy_idx < Len(copy_list)
          /\ \A i \in 1..copy_idx : tree[copy_list[i]] = "pristine"

\* A windows-msvc invocation with the exports feature has fed all six of its
\* patches, the two conditional ones last, and gone on.
C17_Witness ==
  /\ Len(patch_files) = 6
  /\ patch_log = base_patch_files \o << "basic_msvc_compat.patch", "read_module_exports.patch" >>
  /\ pc = "compile"

Unset3 == [CC |-> << >>, AR |-> << >>, CFLAGS |-> << >>]

\* CC, AR and CFLAGS pointing into a toolchain root.
PointAt(root) ==
  [CC |-> << root \o "/bin/clang" >>, AR |-> << root \o "/bin/ar" >>,
   CFLAGS |-> << "--sysroot=" \o root \o "/share/wasi-sysroot" >>]

RootOnDisk(root) == (root = "OUT_DIR/wasi-sdk" /\ cache.dir) \/ root = "/opt/wasi-sdk"

\* C18: CC, AR and CFLAGS are set by an invocation only for a wasi target
\* whose toolchain root exists, all three at once, to <root>/bin/clang,
\* <root>/bin/ar and --sysroot=<root>/share/wasi-sysroot, the last also being
\* the one extra flag for the binding generator; a wasi invocation whose root
\* does not exist ends with them unset; when binding generation or compilation
\* has started they are set exactly for a wasi target; for any other target
\* they stay as they were, there is no extra flag and no sysroot flag reaches
\* header introspection.
C18_ToolchainEnvOnlyForWasi ==
  /\ cc_env # Unset3 =>
       /\ IsWasi /\ wasi_sdk_path # << >>
       /\ RootOnDisk(wasi_sdk_path[1])
       /\ cc_env = PointAt(wasi_sdk_path[1])
       /\ add_cflags = cc_env.CFLAGS
  /\ cc_env = Unset3 => add_cflags = << >>
  /\ panic = "wasi-sdk not installed in specified path" =>
       (IsWasi /\ ~RootOnDisk(wasi_sdk_path[1]) /\ cc_env = Unset3)
  /\ (pc \in { "bindgen", "compile", "done" } \/ bindings_writes > 0 \/ clang_args # << >>)
       => (cc_env # Unset3 <=> IsWasi)
  /\ ~IsWasi =>
       /\ cc_env = Unset3 /\ add_cflags = << >>
       /\ \A i \in DOMAIN clang_args : clang_args[i][1] \in { "-xc", "-v", "--target=", "-D" }

\* A wasi invocation with WASI_SDK=/opt/wasi-sdk has finished in live mode with
\* the three variables pointing into that directory.
C18_Witness ==
  /\ IsWasi /\ env.wasi_sdk = << "/opt/wasi-sdk" >>
  /\ cc_env = [CC |-> << "/opt/wasi-sdk/bin/clang" >>, AR |-> << "/opt/wasi-sdk/bin/ar" >>,
               CFLAGS |-> << "--sysroot=/opt/wasi-sdk/share/wasi-sysroot" >>]
  /\ add_cflags = << "--sysroot=/opt/wasi-sdk/share/wasi-sysroot" >>
  /\ clang_args # << >> /\ pc = "done"

\* -DNAME for an entry without a value, -DNAME=VALUE otherwise, in parts.
FlagOf(d) ==
  IF d.value = << >> THEN << "-D", d.name >> ELSE << "-D", d.name, "=", d.value[1] >>

\* The target flag, the sysroot flag, the -D flags and the visibility flag.
ListedFlags ==
  << << "--target=", env.target[1] >> >>
    \o (IF IsWasi
          THEN << << "--sysroot=" \o wasi_sdk_path[1] \o "/share/wasi-sysroot" >> >>
          ELSE << >>)
    \o [i \in DOMAIN defines |-> FlagOf(defines[i])]
    \o (IF IsWasi THEN << << "-fvisibility=default" >> >> ELSE << >>)

\* The -D flags among the arguments of header introspection equal the
\* defines handed to the compiler, once both have been handed over.
SameDefinitionsAsCompiler ==
  cc_defines # << >> =>
    { clang_args[i] : i \in { j \in DOMAIN clang_args : clang_args[j][1] = "-D" } }
      = { FlagOf(cc_defines[i]) : i \in DOMAIN cc_defines }

\* C19 as stated: the arguments handed to header introspection in live mode
\* are exactly the target flag, the sysroot flag for wasi, one -D flag per
\* define in order and the visibility flag for wasi, and their definitions are
\* those of the compilation.
C19_FlagListIsExactlyTheListed ==
  clang_args # << >> => (clang_args = ListedFlags /\ SameDefinitionsAsCompiler)

\* C19, amended: the arguments handed to header introspection in live mode
\* are the fixed -xc and -v followed by the target flag, the sysroot flag
\* exactly for wasi, one -D flag per define in the order of the defines (bare
\* without a value, NAME=VALUE with one) and the visibility flag exactly for
\* wasi; the definitions among them are those handed to the compilation of the
\* same invocation; fallback mode hands over nothing.
C19_FlagListAfterFixedArguments ==
  /\ clang_args # << >> =>
       /\ CargoFeatureVar[2] \in env.vars
       /\ clang_args = << << "-xc" >>, << "-v" >> >> \o ListedFlags
       /\ SameDefinitionsAsCompiler
  /\ (CargoFeatureVar[2] \in env.vars /\ pc \in { "compile", "done" }) => clang_args # << >>

\* A live wasi invocation with the exports feature has compiled: its
\* arguments hold a sysroot flag, a valued and a bare define and the
\* visibility flag.
C19_Witness ==
  /\ IsWasi /\ pc = "done" /\ cc_defines = defines
  /\ CargoFeatureVar[1] \in env.vars /\ CargoFeatureVar[2] \in env.vars
  /\ Len(clang_args) = 2 + 1 + 1 + 7 + 1
  /\ clang_args[4] = << "--sysroot=OUT_DIR/wasi-sdk/share/wasi-sysroot" >>
  /\ << "-D", Str_CONFIG_MODULE_EXPORTS >> \in Range(clang_args)
  /\ << "-D", Str_EMSCRIPTEN, "=", "1" >> \in Range(clang_args)
  /\ clang_args[Len(clang_args)] = << "-fvisibility=default" >>

====
